---------------------------- MODULE Spec2Model ----------------------------
(***************************************************************************)
(* A model of the key-value web service of src/src/lib.rs: the shared      *)
(* store (AppState behind Arc<RwLock<..>>), the four store handlers, the   *)
(* router with its nested admin router, the bearer-token authorization     *)
(* layer, the timeout layer with its error handler and the logger.         *)
(*                                                                         *)
(* Every request is served by its own task.  A task runs synchronously     *)
(* from one suspension point to the next; tasks of different requests      *)
(* run on different worker threads and interleave at every access to the   *)
(* shared lock, the shared map and the log.                                *)
(***************************************************************************)
EXTENDS Naturals, Sequences, FiniteSets, TLC

\* Number of requests the service receives in one behaviour.
NumReq == 2

Reqs == 1..NumReq

\* Keys of the path parameter :key and request bodies (byte sequences).
Keys == {"test", "other"}
Values == {<< >>, <<1, 2>>, <<3, 4>>}

\* RequireAuthorizationLayer::bearer("secret")
ADMIN_TOKEN == "secret"

\* Authorization header of a request: absent, or the header's value.
NoHeader == "<none>"
AuthHeaders == {NoHeader, "Bearer secret", "Bearer wrong", "Basic secret"}

VARIABLES
    db,        \* AppState.db : HashMap<String, Bytes>, a function on its keys
    poisoned,  \* the RwLock's poison flag
    writers,   \* requests holding a write guard of the RwLock
    readers,   \* requests holding a read guard of the RwLock
    req,       \* req[r]: the request r as received
    pc,        \* pc[r]: where the task of request r stands
    timer,     \* timer[r]: the Sleep of the request's Timeout future
    resp,      \* resp[r]: the response sent for request r
    log,       \* the lines printed by Logger::call, in order
    written,   \* history: the entries <<key, value>> put and not removed since
    expiredAt, \* history: what request r was doing when its Sleep elapsed
    granted,   \* history: the requests granted the write lock, in that order
    failure    \* history: failure[r]: the error handle_error got for request r

vars == <<db, poisoned, writers, readers, req, pc, timer, resp, log, written, expiredAt,
          granted, failure>>

---------------------------------------------------------------------------
(* Requests and responses *)

Text(s) == [text |-> s, bytes |-> << >>]
Raw(b) == [text |-> "", bytes |-> b]

Response(status, body) == [status |-> status, body |-> body]
NoResp == Response(0, Text(""))

\* The query string of a request's URI, as Query<VisitorParams> reads it:
\* << >> when there is no name parameter, <<n>> for ?name=n.
NoQuery == << >>
Names == {"Stefan", ""}

NoReq == [method |-> "", path |-> << >>, query |-> NoQuery, auth |-> NoHeader,
          body |-> << >>]

\* BoxError: an error of the inner service, with its type and its message.
BoxError(type, detail) == [type |-> type, detail |-> detail]
NoFailure == BoxError("", "")

\* Errors other than tower::timeout::error::Elapsed.
InnerErrors ==
    {BoxError(t, d) : t \in {"io::Error", "fmt::Error"},
                      d \in {"connection reset", "broken pipe"}}

\* A request without query string.
Request(method, path, auth, body) ==
    [method |-> method, path |-> path, query |-> NoQuery, auth |-> auth, body |-> body]

\* The requests a client sends to the store routes.
StoreRequests ==
    {Request("GET", <<"kv", k>>, NoHeader, << >>) : k \in Keys}
    \cup {Request("POST", <<"kv", k>>, NoHeader, v) : k \in Keys, v \in Values}
    \cup {Request("DELETE", <<"admin", "kv">>, a, << >>) : a \in AuthHeaders}
    \cup {Request("DELETE", <<"admin", "kv", k>>, a, << >>) : k \in Keys, a \in AuthHeaders}

\* The requests to the greeting routes: GET / and GET /hello, the latter
\* without query and with ?name=n.
HelloRequests ==
    {Request("GET", << >>, NoHeader, << >>)}
    \cup {[Request("GET", <<"hello">>, NoHeader, << >>) EXCEPT !.query = q] :
            q \in {NoQuery} \cup {<<n>> : n \in Names}}

\* Requests that match no route: a registered path with a method that is
\* not registered for it, and a path that is not registered.
UnroutedRequests ==
    {Request("DELETE", <<"kv", "test">>, NoHeader, << >>),
     Request("GET", <<"admin", "kv">>, NoHeader, << >>),
     Request("GET", <<"admin", "kv">>, "Bearer secret", << >>),
     Request("GET", <<"nope">>, NoHeader, << >>)}

Requests == StoreRequests \cup HelloRequests \cup UnroutedRequests

---------------------------------------------------------------------------
(* Router *)

\* admin_routes: the routes of the router nested under /admin.
admin_routes(method, path) ==
    IF Len(path) = 1 /\ path[1] = "kv"
    THEN IF method = "DELETE" THEN "admin_handle_delete" ELSE "MethodNotAllowed"
    ELSE IF Len(path) = 2 /\ path[1] = "kv"
    THEN IF method = "DELETE" THEN "admin_handle_delete_key" ELSE "MethodNotAllowed"
    ELSE "NotFound"

\* (mutant) /kv/:key registered for every method: whatever is not a GET is
\* dispatched to the POST handler.
router_any_method(method, path) ==
    IF path = << >>
    THEN IF method = "GET" THEN "hello_axum" ELSE "MethodNotAllowed"
    ELSE IF path = <<"hello">>
    THEN IF method = "GET" THEN "handler_hello" ELSE "MethodNotAllowed"
    ELSE IF Len(path) = 2 /\ path[1] = "kv"
    THEN IF method = "GET" THEN "handler_kv_get" ELSE "handler_kv_post"
    ELSE IF path[1] = "admin"
    THEN admin_routes(method, Tail(path))
    ELSE "NotFound"

\* router: the handler a (method, path) pair is dispatched to.
router(method, path) ==
    IF path = << >>
    THEN IF method = "GET" THEN "hello_axum" ELSE "MethodNotAllowed"
    ELSE IF path = <<"hello">>
    THEN IF method = "GET" THEN "handler_hello" ELSE "MethodNotAllowed"
    ELSE IF Len(path) = 2 /\ path[1] = "kv"
    THEN IF method = "GET" THEN "handler_kv_get"
         ELSE IF method = "POST" THEN "handler_kv_post"
         ELSE "MethodNotAllowed"
    ELSE IF path[1] = "admin"
    THEN admin_routes(method, Tail(path))
    ELSE "NotFound"

Handler(r) == router(req[r].method, req[r].path)

\* Path(key): the last segment of the matched path.
PathKey(r) == req[r].path[Len(req[r].path)]

IsAdmin(q) == Len(q.path) >= 1 /\ q.path[1] = "admin"

\* (mutant) authorization that accepts any header that is present.
Authorized_any_header(q) == q.auth # NoHeader

\* RequireAuthorizationLayer::bearer(token): the header must equal
\* "Bearer <token>" exactly.
Authorized(q) == q.auth = "Bearer " \o ADMIN_TOKEN


---------------------------------------------------------------------------
(* The store: HashMap<String, Bytes> behind std::sync::RwLock *)

\* (mutant) write() that waits for writers only, as a lock without reader
\* accounting would.
CanWrite_ignoring_readers == writers = {}

\* (mutant) read() that never waits.
CanRead_always == TRUE

\* (mutant) a Mutex in place of the RwLock: read() waits for readers too.
CanRead_exclusive == writers = {} /\ readers = {}

\* RwLock::read blocks while a write guard is out.
CanRead == writers = {}

\* (mutant) write() that waits for readers only: two write guards can be out.
CanWrite_ignoring_writers == readers = {}

\* RwLock::write blocks while any guard is out.
CanWrite == writers = {} /\ readers = {}

\* The handler of r stands in state.read() or state.write() and the lock is
\* not free for it: its worker thread is blocked.
Blocked(r) ==
    /\ pc[r] = "handler"
    /\ Handler(r) \in {"handler_kv_get", "handler_kv_post", "admin_handle_delete",
                        "admin_handle_delete_key"}
    /\ IF Handler(r) = "handler_kv_get" THEN ~CanRead ELSE ~CanWrite

\* What an access without exclusion can leave or see in place of a value:
\* a proper prefix of a value, or the bytes of two values mixed.
TornValues ==
    LET long == {x \in Values : Len(x) = 2}
    IN  ({<<v[1]>> : v \in long} \cup {<<v[1], w[2]>> : v, w \in long}) \ Values

\* The access of request r overlaps a mutation of the map by another request
\* (a data race on the map, which the lock is there to exclude).
ReadRaces(r) == writers \ {r} # {}
WriteRaces(r) == (writers \cup readers) \ {r} # {}

\* (mutant) insert that keeps an existing entry, as entry(key).or_insert(v).
MapInsert_keep(m, k, v) == IF k \in DOMAIN m THEN m ELSE [x \in DOMAIN m \cup {k} |-> IF x = k THEN v ELSE m[x]]

\* (mutant) insert into a map that is replaced by the new entry alone.
MapInsert_alone(m, k, v) == [x \in {k} |-> v]

\* HashMap::insert
MapInsert(m, k, v) == [x \in DOMAIN m \cup {k} |-> IF x = k THEN v ELSE m[x]]

\* (mutant) remove that leaves the entry in place, as a get in its stead.
MapRemove_nothing(m, k) == m

\* (mutant) remove that takes the other entries with it, as a clear in
\* its stead.
MapRemove_all(m, k) == [x \in {} |-> << >>]

\* HashMap::remove
MapRemove(m, k) == [x \in DOMAIN m \ {k} |-> m[x]]

\* (mutant) clear that leaves one entry behind.
MapClear_but_one(m) ==
    IF DOMAIN m = {} THEN m
    ELSE LET k == CHOOSE x \in DOMAIN m : TRUE IN [x \in {k} |-> m[x]]

\* HashMap::clear
MapClear(m) == [x \in {} |-> << >>]

\* (mutant) lookup that answers an absent key with an empty value, as
\* unwrap_or_default would.
MapGet_default(m, k) ==
    IF k \in DOMAIN m
    THEN Response(200, Raw(m[k]))
    ELSE Response(200, Raw(<< >>))

\* HashMap::get(&key) followed by the handler's match: Some(val) => Ok(val.clone()),
\* None => Err(DbError(NOT_FOUND, "Key not found")).
MapGet(m, k) ==
    IF k \in DOMAIN m
    THEN Response(200, Raw(m[k]))
    ELSE Response(404, Text("Key not found"))

\* impl From<PoisonError<T>> for DbError, and the handlers' Err(_) arms.
DbError == Response(500, Text("Database corrupted"))

\* The maps a mutation may leave behind when it raced with another access:
\* any entry may be lost or hold any bytes.
RacedMaps(m) ==
    {m} \cup {MapInsert(m, k, t) : k \in Keys, t \in TornValues \cup Values}
        \cup {MapRemove(m, k) : k \in Keys}

\* The history of the store as a set of entries: what insert, remove and
\* clear do to it.
EntriesPut(s, k, v) == {p \in s : p[1] # k} \cup {<<k, v>>}
EntriesDelete(s, k) == {p \in s : p[1] # k}
EntriesClear(s) == {}

---------------------------------------------------------------------------
(* Initial state: SharedState::default() and a router that has served nothing *)

Init ==
    /\ db = [x \in {} |-> << >>]
    /\ poisoned = FALSE
    /\ writers = {}
    /\ readers = {}
    /\ req = [r \in Reqs |-> NoReq]
    /\ pc = [r \in Reqs |-> "new"]
    /\ timer = [r \in Reqs |-> "unset"]
    /\ resp = [r \in Reqs |-> NoResp]
    /\ log = << >>
    /\ written = {}
    /\ expiredAt = [r \in Reqs |-> "none"]
    /\ granted = << >>
    /\ failure = [r \in Reqs |-> NoFailure]

\* The task of r has produced its response: nothing of it runs any more.
Finish(r, response) ==
    /\ resp' = [resp EXCEPT ![r] = response]
    /\ pc' = [pc EXCEPT ![r] = "done"]

---------------------------------------------------------------------------
(* Middleware *)

\* (mutant) a logger placed inside the authorization layer: requests that
\* RequireAuthorization rejects are not printed.
LoggerCall_inside_auth(r) ==
    /\ pc[r] = "new"
    /\ r > 1 => pc[r - 1] # "new"
    /\ \E q \in Requests :
        /\ req' = [req EXCEPT ![r] = q]
        /\ log' = IF IsAdmin(q) /\ ~Authorized(q)
                  THEN log
                  ELSE Append(log, <<q.method, q.path, q.query>>)
    /\ pc' = [pc EXCEPT ![r] = "called"]
    /\ UNCHANGED <<db, poisoned, writers, readers, timer, resp, written, expiredAt, granted,
                   failure>>

\* Logger::call: print "METHOD URI", then call the inner service.
\* Requests are numbered in the order in which they are received.
LoggerCall(r) ==
    /\ pc[r] = "new"
    /\ r > 1 => pc[r - 1] # "new"
    /\ \E q \in Requests :
        /\ req' = [req EXCEPT ![r] = q]
        /\ log' = Append(log, <<q.method, q.path, q.query>>)
    /\ pc' = [pc EXCEPT ![r] = "called"]
    /\ UNCHANGED <<db, poisoned, writers, readers, timer, resp, written, expiredAt, granted,
                   failure>>

\* Timeout::call starts the 5 second Sleep and calls the router; the router
\* picks the route; under /admin RequireAuthorization answers 401 without
\* calling the handler unless the header carries the token.  handler_kv_post
\* first awaits the body (the Bytes extractor); the other handlers have no
\* suspension point and start at once.
RouterCall(r) ==
    /\ pc[r] = "called"
    /\ timer' = [timer EXCEPT ![r] = "armed"]
    /\ IF IsAdmin(req[r]) /\ ~Authorized(req[r])
       THEN Finish(r, Response(401, Text("")))
       ELSE IF Handler(r) = "handler_kv_post"
       THEN pc' = [pc EXCEPT ![r] = "body"] /\ UNCHANGED resp
       ELSE IF Handler(r) \in {"handler_kv_get", "admin_handle_delete",
                                "admin_handle_delete_key", "hello_axum", "handler_hello"}
       THEN pc' = [pc EXCEPT ![r] = "handler"] /\ UNCHANGED resp
       ELSE IF Handler(r) = "MethodNotAllowed"
       THEN Finish(r, Response(405, Text("")))
       ELSE Finish(r, Response(404, Text("")))
    /\ UNCHANGED <<db, poisoned, writers, readers, req, log, written, expiredAt, granted,
                   failure>>

\* The request's body has arrived: the Bytes extractor completes and the task
\* runs on into the handler's body.  The Timeout future polls the inner future
\* first, so this happens also when the Sleep has elapsed meanwhile.
BodyReady(r) ==
    /\ pc[r] = "body"
    /\ pc' = [pc EXCEPT ![r] = "handler"]
    /\ UNCHANGED <<db, poisoned, writers, readers, req, timer, resp, log, written, expiredAt, granted,
                   failure>>

\* The Sleep of the request's Timeout future elapses while the request
\* waits: suspended for its body, or blocked in its worker thread for the
\* lock.  (While a handler runs without waiting, the Sleep's elapsing
\* changes nothing the service does: the inner future completes in the same
\* poll and the Timeout future returns its result.)
Elapse(r) ==
    /\ pc[r] = "body" \/ Blocked(r)
    /\ timer[r] = "armed"
    /\ timer' = [timer EXCEPT ![r] = "elapsed"]
    /\ expiredAt' = [expiredAt EXCEPT ![r] = IF pc[r] = "body" THEN "body" ELSE "lock"]
    /\ UNCHANGED <<db, poisoned, writers, readers, req, pc, resp, log, written, granted, failure>>

\* (mutant) handle_error that sends the detail of an unrecognized error to
\* the client.
handle_error_echo(err) ==
    IF err.type = "Elapsed"
    THEN Response(408, Text("Request timed out"))
    ELSE IF err.type = "io::Error"
    THEN Response(500, Text("Internal Server Error"))
    ELSE Response(500, Text(err.detail))

\* handle_error: the response for an error of the inner service, told by
\* the error's type (err.is::<T>()).
handle_error(err) ==
    IF err.type = "Elapsed"
    THEN Response(408, Text("Request timed out"))
    ELSE IF err.type = "io::Error"
    THEN Response(500, Text("Internal Server Error"))
    ELSE Response(500, Text("Internal Server Error"))

\* The Timeout future is polled with the inner future pending and the Sleep
\* elapsed: it yields Elapsed, the inner future is dropped, and handle_error
\* turns the error into the response.
TimeoutElapsed(r) ==
    /\ pc[r] = "body"
    /\ timer[r] = "elapsed"
    /\ failure' = [failure EXCEPT ![r] = BoxError("Elapsed", "request timed out")]
    /\ Finish(r, handle_error(failure'[r]))
    /\ UNCHANGED <<db, poisoned, writers, readers, req, timer, log, written, expiredAt,
                   granted>>

\* The inner service of a suspended request fails with an error other than
\* the timeout's: HandleErrorLayer passes it to handle_error.  (The router
\* of this service is infallible; SpecError lets it fail.)
InnerError(r) ==
    /\ pc[r] = "body"
    /\ \E err \in InnerErrors :
        /\ failure' = [failure EXCEPT ![r] = err]
        /\ Finish(r, handle_error(err))
    /\ UNCHANGED <<db, poisoned, writers, readers, req, timer, log, written, expiredAt,
                   granted>>

---------------------------------------------------------------------------
(* Handlers.  Each handler takes the lock (first action, blocking in the   *)
(* worker thread until the lock is free), then does its one map operation  *)
(* and returns, which drops the guard (second action).  On a poisoned lock *)
(* read() and write() return Err, and the guard inside the error is        *)
(* dropped unused.                                                         *)

\* hello_axum: the fixed greeting.
hello_axum(r) ==
    /\ pc[r] = "handler"
    /\ Handler(r) = "hello_axum"
    /\ Finish(r, Response(200, Text("<h1>Hello Axum</h1>")))
    /\ UNCHANGED <<db, poisoned, writers, readers, req, timer, log, written, expiredAt,
                   granted, failure>>

\* (mutant) unwrap_or_default: an absent name is greeted as the empty name.
Greeting_unwrap_or_default(query) ==
    "<h1>Hello " \o (IF query = << >> THEN "" ELSE query[1]) \o "</h1>"

\* handler_hello: Html(format!("<h1>Hello {}</h1>",
\* visitor_params.name.unwrap_or("Unknown Visitor".to_owned())))
Greeting(query) ==
    "<h1>Hello " \o (IF query = << >> THEN "Unknown Visitor" ELSE query[1]) \o "</h1>"

handler_hello(r) ==
    /\ pc[r] = "handler"
    /\ Handler(r) = "handler_hello"
    /\ Finish(r, Response(200, Text(Greeting(req[r].query))))
    /\ UNCHANGED <<db, poisoned, writers, readers, req, timer, log, written, expiredAt,
                   granted, failure>>

\* handler_kv_get: state.read()?
handler_kv_get_lock(r) ==
    /\ pc[r] = "handler"
    /\ Handler(r) = "handler_kv_get"
    /\ CanRead
    /\ IF poisoned
       THEN Finish(r, DbError) /\ UNCHANGED readers
       ELSE /\ readers' = readers \cup {r}
            /\ pc' = [pc EXCEPT ![r] = "reading"]
            /\ UNCHANGED resp
    /\ UNCHANGED <<db, poisoned, writers, req, timer, log, written, expiredAt, granted, failure>>

\* handler_kv_get: match ....db.get(&key) { Some(val) => Ok(val.clone()), None => Err(..) }
handler_kv_get_return(r) ==
    /\ pc[r] = "reading"
    /\ \E m \in (IF ReadRaces(r) THEN RacedMaps(db) ELSE {db}) :
        Finish(r, MapGet(m, PathKey(r)))
    /\ readers' = readers \ {r}
    /\ UNCHANGED <<db, poisoned, writers, req, timer, log, written, expiredAt, granted, failure>>

\* (mutant) write() that recovers the guard of a poisoned lock, as
\* unwrap_or_else(PoisonError::into_inner) would.
WriteLock_recover(r) ==
    /\ pc[r] = "handler"
    /\ CanWrite
    /\ writers' = writers \cup {r}
    /\ pc' = [pc EXCEPT ![r] = "writing"]
    /\ granted' = Append(granted, r)
    /\ UNCHANGED <<db, poisoned, readers, req, timer, resp, log, written, expiredAt, failure>>

\* (mutant) a handler that takes the write guard and then awaits its body
\* with the guard in hand.
WriteLock_then_await(r) ==
    /\ pc[r] = "handler"
    /\ CanWrite
    /\ IF poisoned
       THEN Finish(r, DbError) /\ UNCHANGED <<writers, granted>>
       ELSE /\ writers' = writers \cup {r}
            /\ pc' = [pc EXCEPT ![r] = "body"]
            /\ granted' = Append(granted, r)
            /\ UNCHANGED resp
    /\ UNCHANGED <<db, poisoned, readers, req, timer, log, written, expiredAt, failure>>

\* The match state.write() { Ok(state) => state, Err(_) => return .. } that
\* opens handler_kv_post, admin_handle_delete_key and admin_handle_delete.
WriteLock(r) ==
    /\ pc[r] = "handler"
    /\ CanWrite
    /\ IF poisoned
       THEN Finish(r, DbError) /\ UNCHANGED <<writers, granted>>
       ELSE /\ writers' = writers \cup {r}
            /\ pc' = [pc EXCEPT ![r] = "writing"]
            /\ granted' = Append(granted, r)
            /\ UNCHANGED resp
    /\ UNCHANGED <<db, poisoned, readers, req, timer, log, written, expiredAt, failure>>

\* (mutant) a timeout that looks at the deadline when the handler has
\* returned: the map operation is made and the request answered 408.
WriteReturn_late408(r, handler, map, response) ==
    /\ pc[r] = "writing"
    /\ Handler(r) = handler
    /\ db' \in (IF WriteRaces(r) THEN RacedMaps(map) ELSE {map})
    /\ writers' = writers \ {r}
    /\ Finish(r, IF timer[r] = "elapsed"
                 THEN Response(408, Text("Request timed out"))
                 ELSE response)
    /\ UNCHANGED <<poisoned, readers, req, timer, log, expiredAt, granted, failure>>

\* The map operation of a handler under its write guard, and its return.
WriteReturn(r, handler, map, response) ==
    /\ pc[r] = "writing"
    /\ Handler(r) = handler
    /\ db' \in (IF WriteRaces(r) THEN RacedMaps(map) ELSE {map})
    /\ writers' = writers \ {r}
    /\ Finish(r, response)
    /\ UNCHANGED <<poisoned, readers, req, timer, log, expiredAt, granted, failure>>

handler_kv_post_lock(r) ==
    /\ Handler(r) = "handler_kv_post"
    /\ WriteLock(r)

\* handler_kv_post: state.db.insert(key, bytes); Ok("Inserted key")
handler_kv_post_return(r) ==
    /\ WriteReturn(r, "handler_kv_post", MapInsert(db, PathKey(r), req[r].body),
                   Response(200, Text("Inserted key")))
    /\ written' = EntriesPut(written, PathKey(r), req[r].body)

admin_handle_delete_key_lock(r) ==
    /\ Handler(r) = "admin_handle_delete_key"
    /\ WriteLock(r)

\* admin_handle_delete_key: let _ = state.db.remove(&key); (OK, "Deleted entry")
admin_handle_delete_key_return(r) ==
    /\ WriteReturn(r, "admin_handle_delete_key", MapRemove(db, PathKey(r)),
                   Response(200, Text("Deleted entry")))
    /\ written' = EntriesDelete(written, PathKey(r))

admin_handle_delete_lock(r) ==
    /\ Handler(r) = "admin_handle_delete"
    /\ WriteLock(r)

\* admin_handle_delete: state.db.clear(); (OK, "Deleted all entries")
admin_handle_delete_return(r) ==
    /\ WriteReturn(r, "admin_handle_delete", MapClear(db),
                   Response(200, Text("Deleted all entries")))
    /\ written' = EntriesClear(written)

\* A handler panics while it holds the write guard: dropping the guard
\* during the unwinding poisons the lock, the map operation may or may not
\* have taken effect, and the client gets no response.
Panic(r) ==
    /\ pc[r] = "writing"
    /\ poisoned' = TRUE
    /\ writers' = writers \ {r}
    /\ pc' = [pc EXCEPT ![r] = "panicked"]
    /\ db' \in {db,
                IF Handler(r) = "handler_kv_post"
                THEN MapInsert(db, PathKey(r), req[r].body)
                ELSE IF Handler(r) = "admin_handle_delete_key"
                THEN MapRemove(db, PathKey(r))
                ELSE MapClear(db)}
    /\ UNCHANGED <<readers, req, timer, resp, log, written, expiredAt, granted, failure>>

---------------------------------------------------------------------------
(* Specifications *)

Next ==
    \E r \in Reqs :
        \/ LoggerCall(r)
        \/ RouterCall(r)
        \/ BodyReady(r)
        \/ Elapse(r)
        \/ TimeoutElapsed(r)
        \/ hello_axum(r)
        \/ handler_hello(r)
        \/ handler_kv_get_lock(r)
        \/ handler_kv_get_return(r)
        \/ handler_kv_post_lock(r)
        \/ handler_kv_post_return(r)
        \/ admin_handle_delete_key_lock(r)
        \/ admin_handle_delete_key_return(r)
        \/ admin_handle_delete_lock(r)
        \/ admin_handle_delete_return(r)

\* The service as written: no handler panics under its guard.
Spec == Init /\ [][Next]_vars

\* The service with a handler that may panic while it holds the write guard.
NextFault == Next \/ \E r \in Reqs : Panic(r)

SpecFault == Init /\ [][NextFault]_vars

\* The service with an inner service that may fail.
NextError == Next \/ \E r \in Reqs : InnerError(r)

SpecError == Init /\ [][NextError]_vars

---------------------------------------------------------------------------
(* The requests the claims speak of, read off the request as received *)

IsGetKv(q) == q.method = "GET" /\ Len(q.path) = 2 /\ q.path[1] = "kv"
IsPostKv(q) == q.method = "POST" /\ Len(q.path) = 2 /\ q.path[1] = "kv"
IsDeleteKey(q) == q.method = "DELETE" /\ Len(q.path) = 3 /\ q.path[1] = "admin"
IsDeleteAll(q) == q.method = "DELETE" /\ Len(q.path) = 2 /\ q.path[1] = "admin"
KeyOf(q) == q.path[Len(q.path)]
ValidToken(q) == q.auth = "Bearer secret"

\* The step completes request r: its response is sent.
Completes(r) == pc[r] # "done" /\ pc'[r] = "done"

\* The step is the return of the GET handler of r from its map lookup.
GetReturns(r) == pc[r] = "reading" /\ pc'[r] = "done"

\* The step is the return of a mutating handler of r from its map operation.
WriteReturns(r) == pc[r] = "writing" /\ pc'[r] = "done"

---------------------------------------------------------------------------
(* C1 *)

\* C1: round trip.  When GET /kv/k returns and the last successful
\* mutation of k was a POST /kv/k with body v (no write, delete or clear of
\* k since), the response is 200 with body exactly v; and a POST /kv/k that
\* returns from its insert answers 200 and leaves exactly v under k.
C1_RoundTrip ==
    [][\A r \in Reqs :
        /\ GetReturns(r) =>
            \A v \in Values :
                <<KeyOf(req[r]), v>> \in written => resp'[r] = Response(200, Raw(v))
        /\ (WriteReturns(r) /\ IsPostKv(req[r])) =>
            /\ resp'[r].status = 200
            /\ <<KeyOf(req[r]), req[r].body>> \in written'
            /\ KeyOf(req[r]) \in DOMAIN db'
            /\ db'[KeyOf(req[r])] = req[r].body]_vars

\* A POST of a non-empty value has succeeded and a GET of its key has
\* returned that value.
C1_Witness ==
    \E w, r \in Reqs :
        /\ IsPostKv(req[w]) /\ pc[w] = "done" /\ resp[w].status = 200
        /\ req[w].body = <<1, 2>>
        /\ IsGetKv(req[r]) /\ pc[r] = "done" /\ KeyOf(req[r]) = KeyOf(req[w])
        /\ resp[r] = Response(200, Raw(<<1, 2>>))

---------------------------------------------------------------------------
(* C2 *)

\* C2: an admin DELETE whose Authorization header is absent or is not
\* exactly "Bearer secret" is answered 401 and never reaches its handler:
\* it takes no lock, and no step of it changes the map.
C2_Unauthorized ==
    /\ [](\A r \in Reqs :
            ((IsDeleteKey(req[r]) \/ IsDeleteAll(req[r])) /\ ~ValidToken(req[r])) =>
                /\ pc[r] \in {"called", "done"}
                /\ r \notin writers \cup readers
                /\ pc[r] = "done" => resp[r].status = 401)
    /\ [][\A r \in Reqs :
            (/\ IsDeleteKey(req'[r]) \/ IsDeleteAll(req'[r])
             /\ ~ValidToken(req'[r])
             /\ pc'[r] # pc[r]) => (db' = db /\ written' = written)]_vars

\* Rejected with 401 while the store holds an entry its handler would have
\* removed.
C2_Witness ==
    \E r \in Reqs :
        /\ IsDeleteKey(req[r]) \/ IsDeleteAll(req[r])
        /\ req[r].auth = "Bearer wrong"
        /\ pc[r] = "done" /\ resp[r].status = 401
        /\ DOMAIN db # {}
        /\ IsDeleteKey(req[r]) => KeyOf(req[r]) \in DOMAIN db

---------------------------------------------------------------------------
(* C3 *)

\* C3: DELETE /admin/kv/k with the valid token is answered 200 "Deleted
\* entry" whether or not k was present, k is absent once it has returned,
\* and a GET /kv/k that returns while k is absent is answered 404.
C3_DeleteKey ==
    [][\A r \in Reqs :
        /\ (IsDeleteKey(req[r]) /\ ValidToken(req[r]) /\ Completes(r)) =>
            /\ resp'[r] = Response(200, Text("Deleted entry"))
            /\ KeyOf(req[r]) \notin DOMAIN db'
            /\ \A k \in Keys \ {KeyOf(req[r])} :
                (k \in DOMAIN db') = (k \in DOMAIN db)
        /\ (GetReturns(r) /\ KeyOf(req[r]) \notin DOMAIN db) => resp'[r].status = 404]_vars

\* A delete of a key that was present has been answered 200.
C3_Witness ==
    \E d, w \in Reqs :
        /\ IsDeleteKey(req[d]) /\ ValidToken(req[d])
        /\ pc[d] = "done" /\ resp[d] = Response(200, Text("Deleted entry"))
        /\ IsPostKv(req[w]) /\ KeyOf(req[w]) = KeyOf(req[d])
        /\ pc[w] = "done" /\ resp[w].status = 200
        /\ KeyOf(req[d]) \notin DOMAIN db

\* A delete of a key that was never written has been answered 200.
C3_WitnessAbsent ==
    \E d \in Reqs :
        /\ IsDeleteKey(req[d]) /\ ValidToken(req[d])
        /\ pc[d] = "done" /\ resp[d] = Response(200, Text("Deleted entry"))
        /\ \A w \in Reqs : ~IsPostKv(req[w])

---------------------------------------------------------------------------
(* C4 *)

\* C4: DELETE /admin/kv with the valid token is answered 200 "Deleted all
\* entries" and leaves the map empty, also when it was empty before; a GET
\* that returns while its key is absent is answered 404 "Key not found".
C4_DeleteAll ==
    [][\A r \in Reqs :
        /\ (IsDeleteAll(req[r]) /\ ValidToken(req[r]) /\ Completes(r)) =>
            /\ resp'[r] = Response(200, Text("Deleted all entries"))
            /\ DOMAIN db' = {}
            /\ written' = {}
        /\ (GetReturns(r) /\ DOMAIN db = {}) =>
            resp'[r] = Response(404, Text("Key not found"))]_vars

\* A clear of a store that held an entry has been answered 200, and the
\* store is empty.
C4_Witness ==
    \E d, w \in Reqs :
        /\ IsDeleteAll(req[d]) /\ ValidToken(req[d])
        /\ pc[d] = "done" /\ resp[d] = Response(200, Text("Deleted all entries"))
        /\ IsPostKv(req[w]) /\ pc[w] = "done" /\ resp[w].status = 200
        /\ DOMAIN db = {}

\* A clear of the empty store has been answered 200.
C4_WitnessEmpty ==
    \E d \in Reqs :
        /\ IsDeleteAll(req[d]) /\ ValidToken(req[d])
        /\ pc[d] = "done" /\ resp[d] = Response(200, Text("Deleted all entries"))
        /\ \A w \in Reqs : ~IsPostKv(req[w])

---------------------------------------------------------------------------
(* C5 *)

\* No mutating handler has taken the lock so far.
NothingWritten ==
    \A r \in Reqs :
        ~(/\ IsPostKv(req[r]) \/ IsDeleteKey(req[r]) \/ IsDeleteAll(req[r])
          /\ pc[r] \in {"writing", "done", "panicked"})

\* C5: the store is empty from startup until the first write, and a GET
\* /kv/k that returns while k is not in the store (never written, or
\* written and deleted or cleared since) is answered 404 "Key not found",
\* never 200.
C5_NotFound ==
    /\ [](NothingWritten => (DOMAIN db = {} /\ written = {}))
    /\ [][\A r \in Reqs :
            (GetReturns(r) /\ \A v \in Values : <<KeyOf(req[r]), v>> \notin written) =>
                resp'[r] = Response(404, Text("Key not found"))]_vars

\* A GET of a key that is absent has been answered 404 in a behaviour in
\* which the other key was written.
C5_Witness ==
    \E r, w \in Reqs :
        /\ IsGetKv(req[r]) /\ pc[r] = "done"
        /\ resp[r] = Response(404, Text("Key not found"))
        /\ IsPostKv(req[w]) /\ KeyOf(req[w]) # KeyOf(req[r])
        /\ pc[w] = "done" /\ resp[w].status = 200

---------------------------------------------------------------------------
(* C6 *)

\* The POST of w has inserted its value: it was answered 200 "Inserted key".
Inserted(w) ==
    /\ IsPostKv(req[w])
    /\ pc[w] = "done"
    /\ resp[w] = Response(200, Text("Inserted key"))

\* Request r is a mutation of the store that has taken the lock.
Mutated(r) ==
    /\ IsPostKv(req[r]) \/ IsDeleteKey(req[r]) \/ IsDeleteAll(req[r])
    /\ pc[r] = "writing" \/ (pc[r] = "done" /\ resp[r].status = 200)

\* C6: two POSTs to distinct keys, in any interleaving, that both reach
\* their handler are both answered 200 "Inserted key", and once both have
\* returned (and no other request has mutated the store) each key holds the
\* value written under it, which is what GET returns for it.
C6_DistinctKeys ==
    \A a, b \in Reqs :
        (/\ IsPostKv(req[a]) /\ IsPostKv(req[b])
         /\ KeyOf(req[a]) # KeyOf(req[b])
         /\ pc[a] = "done" /\ pc[b] = "done"
         /\ resp[a].status # 408 /\ resp[b].status # 408) =>
            /\ Inserted(a) /\ Inserted(b)
            /\ (\A c \in Reqs \ {a, b} : ~Mutated(c)) =>
                /\ MapGet(db, KeyOf(req[a])) = Response(200, Raw(req[a].body))
                /\ MapGet(db, KeyOf(req[b])) = Response(200, Raw(req[b].body))

\* Two POSTs to distinct keys have raced and both returned: the one
\* received first was blocked in state.write() by the other (long enough
\* for its Sleep to elapse there).
C6_Witness ==
    /\ Inserted(1) /\ Inserted(2)
    /\ KeyOf(req[1]) # KeyOf(req[2])
    /\ expiredAt[1] = "lock"
    /\ db[KeyOf(req[1])] = req[1].body
    /\ db[KeyOf(req[2])] = req[2].body

---------------------------------------------------------------------------
(* C7 *)

\* The complete values written under k: the bodies of the POSTs to k that
\* have been granted the write lock.
PostedValues(k) ==
    {req[w].body : w \in {x \in Reqs : /\ IsPostKv(req[x])
                                        /\ KeyOf(req[x]) = k
                                        /\ pc[x] \in {"writing", "done"}
                                        /\ resp[x].status \in {0, 200}}}

\* C7: values are atomic.  Every stored value is one of the complete values
\* written under its key; while no writer holds the lock it is the value of
\* the write that was granted the lock last (the history says which); and a
\* GET, also one that runs while a write to its key is in flight, is
\* answered 404 or 200 with one of the complete values written under its key.
C7_AtomicValues ==
    /\ \A k \in DOMAIN db : db[k] \in PostedValues(k)
    /\ writers = {} =>
        /\ \A k \in DOMAIN db : <<k, db[k]>> \in written
        /\ \A p \in written : p[1] \in DOMAIN db /\ db[p[1]] = p[2]
    /\ \A r \in Reqs :
        (IsGetKv(req[r]) /\ pc[r] = "done") =>
            \/ resp[r] = Response(404, Text("Key not found"))
            \/ /\ resp[r].status = 200
               /\ resp[r].body.text = ""
               /\ resp[r].body.bytes \in PostedValues(KeyOf(req[r]))

\* Two POSTs of different values to one key have raced (the one received
\* first was blocked in state.write() by the other), and the key holds the
\* value of the one granted the lock last.
C7_Witness ==
    /\ Inserted(1) /\ Inserted(2)
    /\ KeyOf(req[1]) = KeyOf(req[2])
    /\ req[1].body = <<1, 2>> /\ req[2].body = <<3, 4>>
    /\ expiredAt[1] = "lock"
    /\ db[KeyOf(req[1])] = <<1, 2>>

\* A GET was blocked in state.read() by a POST to its key and has returned
\* the complete new value.
C7_WitnessRead ==
    \E r, w \in Reqs :
        /\ IsGetKv(req[r]) /\ Inserted(w) /\ KeyOf(req[r]) = KeyOf(req[w])
        /\ expiredAt[r] = "lock"
        /\ pc[r] = "done" /\ resp[r] = Response(200, Raw(req[w].body))

---------------------------------------------------------------------------
(* C8, under SpecFault *)

\* C8: a poisoned store is terminal.  Once the lock is poisoned it stays
\* poisoned and the map never changes again; no request holds a guard; and
\* every handler (GET, POST, DELETE key, DELETE all) that comes to take the
\* lock returns 500 "Database corrupted" at once.
C8_PoisonedIsTerminal ==
    /\ [][poisoned => (poisoned' /\ db' = db /\ written' = written)]_vars
    /\ [](poisoned => (writers = {} /\ readers = {}
                       /\ \A r \in Reqs : pc[r] \notin {"reading", "writing"}))
    /\ [][\A r \in Reqs :
            (/\ poisoned
             /\ IsGetKv(req[r]) \/ IsPostKv(req[r]) \/ IsDeleteKey(req[r]) \/ IsDeleteAll(req[r])
             /\ pc[r] = "handler" /\ pc'[r] # "handler") =>
                /\ pc'[r] = "done"
                /\ resp'[r] = Response(500, Text("Database corrupted"))]_vars

\* After a panic under the write guard a mutating request has been answered
\* 500 "Database corrupted".
C8_Witness ==
    \E r, f \in Reqs :
        /\ poisoned
        /\ pc[f] = "panicked"
        /\ IsPostKv(req[r]) \/ IsDeleteKey(req[r]) \/ IsDeleteAll(req[r])
        /\ pc[r] = "done"
        /\ resp[r] = Response(500, Text("Database corrupted"))

\* After a panic under the write guard a GET has been answered 500.
C8_WitnessGet ==
    \E r \in Reqs :
        /\ poisoned
        /\ IsGetKv(req[r])
        /\ pc[r] = "done"
        /\ resp[r] = Response(500, Text("Database corrupted"))

---------------------------------------------------------------------------
(* C9 *)

\* C9: a request whose inner pipeline had not completed when its 5 second
\* deadline expired is answered 408 "Request timed out" (its in-flight work
\* abandoned), and never with the handler's response.
C9_ExpiredIsAnswered408 ==
    \A r \in Reqs :
        (pc[r] = "done" /\ timer[r] = "elapsed") =>
            resp[r] = Response(408, Text("Request timed out"))

---------------------------------------------------------------------------
(* C10 *)

\* C10: a request whose handler was blocked acquiring the store lock when
\* its deadline expired is answered 408, rather than being answered only
\* after the lock was granted to it.
C10_BlockedIsAnswered408 ==
    \A r \in Reqs :
        (expiredAt[r] = "lock" /\ pc[r] # "handler") =>
            /\ pc[r] = "done"
            /\ resp[r].status = 408

---------------------------------------------------------------------------
(* C11, under SpecError *)

\* C11: error normalization.  Every error that reaches handle_error is
\* answered, never propagated: the request is done with a response; a
\* timeout expiry is answered 408 "Request timed out" and every other error,
\* whatever its type and its detail, 500 "Internal Server Error".
C11_ErrorsNormalized ==
    \A r \in Reqs :
        failure[r] # NoFailure =>
            /\ pc[r] = "done"
            /\ resp[r] = IF failure[r].type = "Elapsed"
                         THEN Response(408, Text("Request timed out"))
                         ELSE Response(500, Text("Internal Server Error"))

\* An error that is neither a timeout nor an I/O error has been answered 500
\* "Internal Server Error", and a timeout of another request 408.
C11_Witness ==
    \E r, t \in Reqs :
        /\ failure[r].type = "fmt::Error" /\ failure[r].detail = "broken pipe"
        /\ resp[r] = Response(500, Text("Internal Server Error"))
        /\ failure[t].type = "Elapsed"
        /\ resp[t].status = 408

---------------------------------------------------------------------------
(* C12 *)

\* The requests that have entered the service.
Entered == {r \in Reqs : pc[r] # "new"}

\* C12: logging is unconditional and first.  Every request that has entered
\* the service has exactly one line in the log, with its method and path
\* (requests are numbered in the order they enter, so line r is that of
\* request r); and a request without its line has no authorization
\* decision, no timer, no lock, no grant, no error and no response yet.
C12_LoggedFirst ==
    /\ Len(log) = Cardinality(Entered)
    /\ \A r \in Entered :
        /\ r <= Len(log)
        /\ log[r][1] = req[r].method
        /\ log[r][2] = req[r].path
    /\ \A r \in Reqs \ Entered :
        /\ req[r] = NoReq
        /\ resp[r] = NoResp
        /\ timer[r] = "unset"
        /\ failure[r] = NoFailure
        /\ r \notin writers \cup readers
        /\ \A i \in 1..Len(granted) : granted[i] # r

\* A request rejected with 401, and a request that timed out, unmatched or
\* not, all have their line.
C12_Witness ==
    \E a, t \in Reqs :
        /\ resp[a].status = 401 /\ log[a] = <<"DELETE", <<"admin", "kv">>, NoQuery>>
        /\ resp[t].status = 408 /\ log[t][1] = "POST"
        /\ Len(log) = 2

---------------------------------------------------------------------------
(* C13 *)

\* The paths of the route table, and the (method, path) pairs it serves.
RegisteredPath(path) ==
    \/ path = << >>
    \/ path = <<"hello">>
    \/ Len(path) = 2 /\ path[1] = "kv"
    \/ Len(path) = 2 /\ path[1] = "admin" /\ path[2] = "kv"
    \/ Len(path) = 3 /\ path[1] = "admin" /\ path[2] = "kv"

RegisteredRoute(method, path) ==
    \/ method = "GET" /\ path \in {<< >>, <<"hello">>}
    \/ method \in {"GET", "POST"} /\ Len(path) = 2 /\ path[1] = "kv"
    \/ method = "DELETE" /\ Len(path) \in {2, 3} /\ path[1] = "admin" /\ path[2] = "kv"

Unmatched(r) == pc[r] # "new" /\ ~RegisteredRoute(req[r].method, req[r].path)

\* A step of an unmatched request leaves the store and its lock alone.
UnmatchedLeavesStore ==
    \A r \in Reqs :
        (pc'[r] # "new" /\ ~RegisteredRoute(req'[r].method, req'[r].path) /\ pc'[r] # pc[r])
            => db' = db /\ writers' = writers /\ readers' = readers /\ granted' = granted

C13_WitnessAdmin ==
    \E r, t \in Reqs :
        /\ req[r].method = "GET" /\ req[r].path = <<"admin", "kv">>
        /\ req[t].method = "GET" /\ req[t].path = <<"admin", "kv">>
        /\ resp[r].status = 401
        /\ resp[t].status = 405

---------------------------------------------------------------------------
(* C14 *)

IsHello(q) == q.method = "GET" /\ q.path = <<"hello">>

\* A step of a GET /hello request leaves the store and its lock alone.
HelloLeavesStore ==
    \A r \in Reqs :
        (IsHello(req'[r]) /\ pc'[r] # pc[r])
            => db' = db /\ writers' = writers /\ readers' = readers /\ granted' = granted

\* C14: GET /hello is answered 200 with '<h1>Hello NAME</h1>' for the name
\* of the query and '<h1>Hello Unknown Visitor</h1>' without a query; the
\* request never takes the store's lock, its steps leave the store
\* unchanged, and it is answered whatever the store holds and whoever holds
\* the lock.
C14_HelloGreeting ==
    /\ [](\A r \in Reqs :
            IsHello(req[r]) =>
                /\ r \notin writers \cup readers
                /\ pc[r] \in {"called", "handler", "done"}
                /\ pc[r] = "handler" => ENABLED handler_hello(r)
                /\ pc[r] = "done" =>
                    /\ resp[r].status = 200
                    /\ req[r].query = NoQuery
                        => resp[r].body = Text("<h1>Hello Unknown Visitor</h1>")
                    /\ req[r].query = <<"Stefan">>
                        => resp[r].body = Text("<h1>Hello Stefan</h1>")
                    /\ req[r].query = <<"">>
                        => resp[r].body = Text("<h1>Hello </h1>"))
    /\ [][HelloLeavesStore]_vars

\* GET /hello is answered 'Unknown Visitor' while the store holds an entry.
C14_Witness ==
    \E r, w \in Reqs :
        /\ IsHello(req[r]) /\ req[r].query = NoQuery
        /\ resp[r] = Response(200, Text("<h1>Hello Unknown Visitor</h1>"))
        /\ IsPostKv(req[w]) /\ pc[w] = "done"
        /\ db # << >>

\* GET /hello?name=Stefan is answered while a writer holds the lock.
C14_WitnessStefan ==
    \E r, w \in Reqs :
        /\ IsHello(req[r])
        /\ resp[r] = Response(200, Text("<h1>Hello Stefan</h1>"))
        /\ w \in writers

---------------------------------------------------------------------------
(* C15 *)

\* Every change of the mapping is the map operation of the one request that
\* holds the write guard, and every lookup is made under a read guard with
\* no write guard out.
AccessUnderGuard ==
    /\ db' # db => \E r \in Reqs : WriteReturns(r) /\ writers = {r} /\ readers = {}
    /\ \A r \in Reqs : WriteReturns(r) => (writers = {r} /\ readers = {})
    /\ \A r \in Reqs : GetReturns(r) => (r \in readers /\ writers = {})

\* C15: lock discipline.  At most one request holds the write guard, no
\* request holds a read guard while one does, the guards are held by
\* exactly the requests that stand in their map operation, every insert,
\* remove and clear is made by the holder of the write guard, and every
\* lookup by a holder of a read guard.
C15_LockDiscipline ==
    /\ [](/\ Cardinality(writers) <= 1
          /\ writers # {} => readers = {}
          /\ \A r \in Reqs : r \in writers <=> pc[r] = "writing"
          /\ \A r \in Reqs : r \in readers <=> pc[r] = "reading")
    /\ [][AccessUnderGuard]_vars

\* A writer holds the guard while a GET and nothing else waits for it.
C15_Witness ==
    \E w, r \in Reqs :
        /\ writers = {w}
        /\ IsGetKv(req[r])
        /\ Blocked(r)

\* A reader holds the guard while a writer waits for it.
C15_WitnessReader ==
    \E w, r \in Reqs :
        /\ readers = {r}
        /\ IsPostKv(req[w])
        /\ Blocked(w)

---------------------------------------------------------------------------
(* C16 *)

\* A step of a GET /kv/k request leaves the mapping and the write guard
\* alone.
GetLeavesStore ==
    \A r \in Reqs :
        (IsGetKv(req'[r]) /\ pc'[r] # pc[r])
            => db' = db /\ written' = written /\ writers' = writers /\ granted' = granted

\* C16: GET /kv/k is read-only and shares the lock.  No step of a GET
\* changes the mapping, whatever its answer (200, 404, or 500 on a poisoned
\* lock); a GET never holds the write guard; and a GET that stands before
\* state.read() can take its guard whenever no write guard is out, however
\* many read guards are.
C16_GetSharesLock ==
    /\ [](\A r \in Reqs :
            IsGetKv(req[r]) =>
                /\ r \notin writers
                /\ pc[r] = "done" => resp[r].status \in {200, 404, 500}
                /\ (pc[r] = "handler" /\ writers = {}) => ENABLED handler_kv_get_lock(r))
    /\ [][GetLeavesStore]_vars

\* Two GETs hold the lock at the same time.
C16_Witness ==
    \E r, t \in Reqs :
        /\ r # t
        /\ IsGetKv(req[r]) /\ IsGetKv(req[t])
        /\ {r, t} \subseteq readers

\* A GET of a stored key has returned its value and the entry is still there.
C16_WitnessStored ==
    \E r \in Reqs :
        /\ IsGetKv(req[r])
        /\ resp[r].status = 200
        /\ KeyOf(req[r]) \in DOMAIN db
        /\ resp[r].body = Raw(db[KeyOf(req[r])])

---------------------------------------------------------------------------
(* C17 *)

\* Maps m and n agree on the presence and the value of key k.
SameEntry(m, n, k) ==
    /\ k \in DOMAIN m <=> k \in DOMAIN n
    /\ k \in DOMAIN m => m[k] = n[k]

\* C17: per-key frame.  The map operation of POST /kv/k and of DELETE
\* /admin/kv/k leaves the presence and the value of every other key as they
\* were, also while a GET of another key waits for the lock; and a GET of k2
\* returns the entry the store holds for k2 at its lookup, so a write or
\* delete of another key does not change its answer.
C17_PerKeyFrame ==
    [][/\ \A r \in Reqs :
            (WriteReturns(r) /\ (IsPostKv(req[r]) \/ IsDeleteKey(req[r]))) =>
                \A k2 \in Keys \ {KeyOf(req[r])} : SameEntry(db, db', k2)
       /\ \A r \in Reqs :
            GetReturns(r) =>
                resp'[r] = IF KeyOf(req[r]) \in DOMAIN db
                           THEN Response(200, Raw(db[KeyOf(req[r])]))
                           ELSE Response(404, Text("Key not found"))]_vars

\* DELETE /admin/kv/test has returned and the entry of "other" is still there.
C17_Witness ==
    \E r, w \in Reqs :
        /\ IsDeleteKey(req[r]) /\ KeyOf(req[r]) = "test"
        /\ resp[r].status = 200
        /\ IsPostKv(req[w]) /\ KeyOf(req[w]) = "other"
        /\ "other" \in DOMAIN db
        /\ db["other"] = req[w].body

\* POST /kv/test has returned while a GET of "other" waited for the lock,
\* and the entry of "other" is as absent as before.
C17_WitnessPost ==
    \E r, w \in Reqs :
        /\ IsPostKv(req[w]) /\ KeyOf(req[w]) = "test" /\ resp[w].status = 200
        /\ IsGetKv(req[r]) /\ KeyOf(req[r]) = "other"
        /\ expiredAt[r] = "lock"
        /\ resp[r].status = 404

---------------------------------------------------------------------------
(* C18 *)

\* The sequential map: one mutation applied to map m.
Apply(m, q) ==
    IF IsPostKv(q)
    THEN [x \in DOMAIN m \cup {KeyOf(q)} |-> IF x = KeyOf(q) THEN q.body ELSE m[x]]
    ELSE IF IsDeleteKey(q)
    THEN [x \in DOMAIN m \ {KeyOf(q)} |-> m[x]]
    ELSE [x \in {} |-> << >>]

RECURSIVE ApplyAll(_, _)
ApplyAll(m, ops) ==
    IF ops = << >> THEN m ELSE ApplyAll(Apply(m, req[Head(ops)]), Tail(ops))

IsCompleted(r) == pc[r] = "done"

\* The completed mutations, in the order their write guards were granted,
\* applied one at a time to the empty map.
Sequential == ApplyAll([x \in {} |-> << >>], SelectSeq(granted, IsCompleted))

\* C18: linearizability.  In every state the mapping is the sequential map
\* of the completed mutations in grant order; every mutation whose guard is
\* granted is in that order once; and a GET that returns answers with the
\* entry of that sequential map: 200 and the latest value written to its
\* key in that order, or 404 when the order's last operation on the key
\* removed it or there is none.
C18_Linearizable ==
    /\ [](/\ db = Sequential
          /\ \A i, j \in 1..Len(granted) : granted[i] = granted[j] => i = j
          /\ \A r \in Reqs :
                Mutated(r) <=> \E i \in 1..Len(granted) : granted[i] = r)
    /\ [][\A r \in Reqs :
            GetReturns(r) =>
                resp'[r] = IF KeyOf(req[r]) \in DOMAIN Sequential
                           THEN Response(200, Raw(Sequential[KeyOf(req[r])]))
                           ELSE Response(404, Text("Key not found"))]_vars

\* Two POSTs of different values to the same key were granted the lock
\* against the order of their arrival, and the store holds the value of the
\* one granted last.
C18_Witness ==
    /\ granted = <<2, 1>>
    /\ IsPostKv(req[1]) /\ IsPostKv(req[2])
    /\ KeyOf(req[1]) = KeyOf(req[2])
    /\ req[1].body # req[2].body
    /\ pc[1] = "done" /\ pc[2] = "done"
    /\ db[KeyOf(req[1])] = req[1].body

\* A GET that waited for the writer of its key has returned the value
\* written.
C18_WitnessGet ==
    \E r, w \in Reqs :
        /\ granted = <<w>>
        /\ IsPostKv(req[w])
        /\ IsGetKv(req[r]) /\ KeyOf(req[r]) = KeyOf(req[w])
        /\ expiredAt[r] = "lock"
        /\ resp[r] = Response(200, Raw(req[w].body))

---------------------------------------------------------------------------
(* C19 *)

\* The return of the handler of r from its map operation, which drops its
\* guard.
Releases(r) ==
    \/ handler_kv_get_return(r)
    \/ handler_kv_post_return(r)
    \/ admin_handle_delete_key_return(r)
    \/ admin_handle_delete_return(r)

Holders == writers \cup readers

\* The only step of a request that holds a guard is its return, which drops
\* the guard; its timer does not fire meanwhile.
HolderOnlyReturns ==
    \A r \in Holders :
        /\ timer'[r] = timer[r]
        /\ pc'[r] # pc[r] => (pc'[r] = "done" /\ r \notin writers' \cup readers')

\* C19: no handler holds the lock across a suspension point.  A request
\* that holds a guard stands in its map operation, with its return enabled
\* and nothing else to do; a request that waits for its body, was answered
\* 408 or is finished holds no guard; and whenever a request is blocked on
\* the lock, a holder of the lock is there whose return is enabled.
C19_NoLockAcrossAwait ==
    /\ [](/\ \A r \in Holders : pc[r] \in {"reading", "writing"} /\ ENABLED Releases(r)
          /\ \A r \in Reqs :
                (pc[r] \in {"new", "called", "body", "done"} \/ resp[r].status = 408)
                    => r \notin Holders
          /\ \A r \in Reqs :
                Blocked(r) => \E h \in Holders \ {r} : ENABLED Releases(h))
    /\ [][HolderOnlyReturns]_vars

\* A POST is suspended for its body past its deadline while another request
\* holds the write guard.
C19_Witness ==
    \E r, h \in Reqs :
        /\ pc[r] = "body" /\ timer[r] = "elapsed"
        /\ writers = {h}

\* A request is blocked past its deadline for the guard of a reader.
C19_WitnessBlocked ==
    \E r, h \in Reqs :
        /\ Blocked(r)
        /\ expiredAt[r] = "lock"
        /\ readers = {h}

---------------------------------------------------------------------------
(* C20 *)

\* Request r was granted the write guard.
WasGranted(r) == \E i \in 1..Len(granted) : granted[i] = r

\* A request answered 408 takes no further step, and every change of the
\* mapping is the return of a handler that answers 200.
CancelledStaysOut ==
    /\ \A r \in Reqs :
        resp[r].status = 408 => (pc'[r] = pc[r] /\ resp'[r] = resp[r])
    /\ db' # db => \E r \in Reqs : WriteReturns(r) /\ resp'[r].status = 200

\* C20: cancellation is all-or-nothing.  A request answered 408 "Request
\* timed out" is finished, was never granted the write guard, holds none
\* and takes no further step, so it neither has mutated the store nor does
\* so later; every change of the mapping is made by the return of a handler
\* that ran to its end and answers 200, and every mutation that was granted
\* and has finished was answered 200.
C20_CancelledNeverMutates ==
    /\ [](\A r \in Reqs :
            /\ resp[r].status = 408 =>
                /\ resp[r] = Response(408, Text("Request timed out"))
                /\ pc[r] = "done"
                /\ ~WasGranted(r)
                /\ r \notin writers \cup readers
            /\ (WasGranted(r) /\ pc[r] = "done") => resp[r].status = 200)
    /\ [][CancelledStaysOut]_vars

\* A POST was answered 408, and the store holds for its key the different
\* value of a POST that ran to its end.
C20_Witness ==
    \E r, w \in Reqs :
        /\ IsPostKv(req[r]) /\ resp[r].status = 408
        /\ Inserted(w)
        /\ KeyOf(req[w]) = KeyOf(req[r])
        /\ req[w].body # req[r].body
        /\ db[KeyOf(req[r])] = req[w].body

============================================================================
